---- MODULE Spec2Model ----
(***************************************************************************)
(* Distributed branch-and-bound chromatic-number solver                    *)
(* (src/src/branch_n_bound/branch_n_bound_par.cpp, src/src/common.hpp).    *)
(*                                                                         *)
(* P ranks, four threads per rank (T0 terminator, T1 bound gatherer,       *)
(* T2 employer, T3 worker), MPI point-to-point channels per tag,           *)
(* the broadcast of (solution_found, timeout_signal) and the all-gather    *)
(* of the best upper bound.                                                *)
(***************************************************************************)
EXTENDS Integers, Sequences, FiniteSets, Bags, TLC

\* ------------------------------------------------------------------------
\* Bounds of the model
\* ------------------------------------------------------------------------

\* all-gather rounds a rank's T1 may start
MaxGathers == 1
\* broadcasts rank 0 may be ahead of a worker's T0
MaxBcastLag == 1
\* answers of an employer that may be unread by one requester
MaxResp == 1
\* longest history of a Branch whose transfer is checked apart
MaxHistory == 2
\* largest number of processes whose seeding descent is checked apart
MaxProcs == 4
\* clock readings per second, and the largest timeout_seconds, of the timeout
\* test checked apart
UnitsPerSecond == 4
MaxSeconds == 2

\* ------------------------------------------------------------------------
\* Program constants
\* ------------------------------------------------------------------------

\* USHRT_MAX, the initial value of best_ub
USHRT_MAX == 65535

\* ------------------------------------------------------------------------
\* Graphs: surviving vertices V, edges E (two-element sets), and rep, the
\* surviving vertex every root vertex has been merged into.
\* ------------------------------------------------------------------------

MinOf(S) == CHOOSE x \in S : \A y \in S : x <= y
MaxOf(S) == CHOOSE x \in S : \A y \in S : x >= y

RootGraph(nv, edges) ==
    [V |-> 1..nv, E |-> edges, rep |-> [w \in 1..nv |-> w]]

Adjacent(G, u, v) == {u, v} \in G.E

Neighbours(G, v) == {u \in G.V : Adjacent(G, u, v)}

GetNumVertices(G) == Cardinality(G.V)

\* Graph::AddEdge(u, v)
AddEdge(G, u, v) == [G EXCEPT !.E = @ \cup {{u, v}}]

\* Graph::MergeVertices(u, v): u absorbs v, v is removed and recorded as
\* merged into u
MergeVertices(G, u, v) ==
    [V   |-> G.V \ {v},
     E   |-> {e \in G.E : v \notin e}
               \cup {{u, w} : w \in Neighbours(G, v) \ {u}},
     rep |-> [w \in DOMAIN G.rep |-> IF G.rep[w] = v THEN u ELSE G.rep[w]]]

\* Graph::GetMergedVertices(v)
GetMergedVertices(G, v) == {w \in DOMAIN G.rep : G.rep[w] = v /\ w # v}

\* ------------------------------------------------------------------------
\* Oracles (external collaborators; modelled from their contracts).
\* ------------------------------------------------------------------------

\* BranchingStrategy::ChooseVertices: the first non-adjacent pair of surviving
\* vertices, or (-1,-1) when the graph is complete
NonAdjacentPairs(G) ==
    {pr \in G.V \X G.V : pr[1] < pr[2] /\ ~Adjacent(G, pr[1], pr[2])}

ChooseVertices(G) ==
    IF NonAdjacentPairs(G) = {} THEN <<-1, -1>>
    ELSE CHOOSE pr \in NonAdjacentPairs(G) :
           \A q \in NonAdjacentPairs(G) :
              pr[1] < q[1] \/ (pr[1] = q[1] /\ pr[2] <= q[2])

IsClique(G, S) == \A u \in S, v \in S : u # v => Adjacent(G, u, v)

\* clique number of G
Omega(G) == MaxOf({Cardinality(S) : S \in {T \in SUBSET G.V : IsClique(G, T)}})

\* greedy clique grown from the lowest vertex
RECURSIVE GrowClique(_, _, _)
GrowClique(G, todo, S) ==
    IF todo = {} THEN S
    ELSE LET v == MinOf(todo)
         IN  GrowClique(G, todo \ {v},
                        IF IsClique(G, S \cup {v}) THEN S \cup {v} ELSE S)

\* CliqueStrategy::FindClique: a lower bound on the chromatic number
FindClique(G, strat) ==
    IF strat = "exact" THEN Omega(G)
    ELSE Cardinality(GrowClique(G, G.V, {}))

\* greedy colouring in ascending vertex order
RECURSIVE GreedyColoring(_, _, _)
GreedyColoring(G, todo, col) ==
    IF todo = {} THEN col
    ELSE LET v    == MinOf(todo)
             used == {col[u] : u \in Neighbours(G, v) \cap DOMAIN col}
             c    == MinOf({k \in 1..Cardinality(G.V) : k \notin used})
         IN  GreedyColoring(G, todo \ {v}, (v :> c) @@ col)

\* one colour per vertex, in vertex order
DistinctColoring(G) ==
    [v \in G.V |-> Cardinality({u \in G.V : u <= v})]

\* ColorStrategy::Color: a proper colouring of the surviving vertices with
\* colours 1..k
Coloring(G, strat) ==
    IF strat = "greedy" THEN GreedyColoring(G, G.V, <<>>)
    ELSE DistinctColoring(G)

\* the bound ub that Color returns: the number of colours used
ColorUB(G, strat) ==
    LET col == Coloring(G, strat) IN MaxOf({col[v] : v \in DOMAIN col})

\* chromatic number of the root graph (specification value, by enumeration)
IsProper(nv, edges, col) == \A e \in edges : \A u \in e, v \in e : u # v => col[u] # col[v]

Chi(nv, edges) ==
    MinOf({k \in 1..nv : \E col \in [1..nv -> 1..k] : IsProper(nv, edges, col)})

\* ------------------------------------------------------------------------
\* State
\* ------------------------------------------------------------------------

VARIABLES
    sc,               \* the run: variant, p, root graph, expected_chi, oracles, timeout
    best_ub,          \* _best_ub of every rank
    terminate_flag,   \* terminate_flag of every rank
    queue,            \* the BranchQueue of every rank (a bag of Branches)
    qlock,            \* holder of queue_mutex: "free" or "T2"
    current_best,     \* _current_best of every rank
    graph_out,        \* rank 0: the Branch whose colouring the output graph carries
    optimum_time,     \* rank 0: -1, or 0 for a recorded elapsed time
    log,              \* rank 0: termination messages written by T0
    pc0, pc1, pc2, pc3,            \* position of T0..T3 of every rank
    solution_found, timeout_signal, \* T0 locals of every rank
    idle_status,      \* rank 0: idle_status[i]
    sol_src,          \* rank 0: status_solution.MPI_SOURCE
    to_idx,           \* rank 0: i of the timeout collection loop
    best_branch,      \* rank 0: best_branch of the timeout collection
    round,            \* T1: number of all-gathers started
    gathered,         \* gathered[k][r]: contribution of rank r to all-gather k
    current,          \* T3: the popped Branch
    first_iteration,  \* T3 (STANDARD)
    target,           \* T3: target_worker of request_work
    destination_rank, \* T2: the requester being answered
    branch,           \* T2: the Branch popped for that requester
    prev,             \* T3: previous_best_ub of the two-child update
    chSol,            \* TAG_SOLUTION_FOUND messages, per sender, to rank 0
    chIdle,           \* TAG_IDLE messages, per sender, to rank 0
    reqs,             \* TAG_WORK_REQUEST messages <<requester, victim>>
    chResp,           \* TAG_WORK_RESPONSE messages, [victim][requester]
    chSteal,          \* TAG_WORK_STEALING messages, [victim][requester]
    chTO,             \* TAG_TIMEOUT_SOLUTION messages, per sender, to rank 0
    bc,               \* broadcast pairs not yet read by a worker's T0
    ser_b,            \* Branch transfer: the Branch handed to serialize
    ser_buf,          \* Branch transfer: the buffer serialize returned
    ser_out,          \* Branch transfer: the Branches deserialize returned
    seed_p,           \* seeding descent: the number of processes p
    seed_a, seed_b,   \* seeding descent: the interval [a, b] of every rank
    seed_h,           \* seeding descent: the decisions every rank has applied
    seed_q,           \* seeding descent: the queue of every rank after it
    clock_start,      \* timeout test: MPI_Wtime() as Solve recorded it
    clock_now,        \* timeout test: MPI_Wtime() now
    clock_timeout,    \* timeout test: timeout_seconds
    clock_signal      \* timeout test: timeout_signal of rank 0's T0

\* the state of Solve
solve_vars == <<sc, best_ub, terminate_flag, queue, qlock, current_best,
                graph_out, optimum_time, log, pc0, pc1, pc2, pc3,
                solution_found, timeout_signal, idle_status, sol_src, to_idx,
                best_branch, round, gathered, current, first_iteration,
                target, destination_rank, branch, prev, chSol, chIdle, reqs,
                chResp, chSteal, chTO, bc>>

\* the state of a Branch transfer taken alone
ser_vars == <<ser_b, ser_buf, ser_out>>

\* the state of the seeding descents of p processes taken alone
seed_vars == <<seed_p, seed_a, seed_b, seed_h, seed_q>>

\* the state of the timeout test taken alone
clock_vars == <<clock_start, clock_now, clock_timeout, clock_signal>>

\* the state of the operations that are checked apart from a run of Solve
apart_vars == <<ser_vars, seed_vars, clock_vars>>

vars == <<solve_vars, apart_vars>>

Ranks == 0..(sc.p - 1)
Workers == 1..(sc.p - 1)

Root == RootGraph(sc.nv, sc.edges)

\* ------------------------------------------------------------------------
\* Branch (common.hpp): history of MERGE ("M") / ADDEDGE ("A") decisions on
\* the pairs the branching oracle chooses, lb, ub, depth; g tells whether the
\* Branch holds a graph.
\* ------------------------------------------------------------------------

Branch(h, lower, upper, dp) ==
    [history |-> h, lb |-> lower, ub |-> upper, depth |-> dp, g |-> TRUE]

\* Branch(): no graph, zero bounds
EmptyBranch == [history |-> <<>>, lb |-> 0, ub |-> 0, depth |-> 0, g |-> FALSE]

ApplyOp(G, op) ==
    LET pr == ChooseVertices(G)
    IN  IF op = "M" THEN MergeVertices(G, pr[1], pr[2])
        ELSE AddEdge(G, pr[1], pr[2])

\* the graph of a Branch: the history replayed on the root graph
RECURSIVE Replay(_, _)
Replay(G, h) == IF h = <<>> THEN G ELSE Replay(ApplyOp(G, Head(h)), Tail(h))

GraphOf(b) == Replay(Root, b.history)

\* a Branch built with the two bounds in each other's place
MakeBranchSwapped(h, dp) ==
    LET G == Replay(Root, h)
    IN  Branch(h, ColorUB(G, sc.color), FindClique(G, sc.clique), dp)

\* the Branch built from a history: both bounds computed by the oracles
MakeBranch(h, dp) ==
    LET G == Replay(Root, h)
    IN  Branch(h, FindClique(G, sc.clique), ColorUB(G, sc.color), dp)

\* a queue that hands out a Branch of minimal depth
TopShallowest(q) ==
    {b \in BagToSet(q) : \A c \in BagToSet(q) : ~(c.depth < b.depth)}

\* Branch::operator<: the queue hands out a Branch of maximal depth
Top(q) == {b \in BagToSet(q) : \A c \in BagToSet(q) : ~(b.depth < c.depth)}

Push(q, b) == q (+) SetToBag({b})

\* a pop that hands out the Branch and leaves it in the queue
PopKept(q, b) == q

\* queue.pop() after queue.top(): the Branch handed out leaves the queue
Pop(q, b) == q (-) SetToBag({b})

\* ColorInitialGraph: every surviving vertex keeps the colour it has in the
\* Branch's graph, every merged vertex takes the colour of the vertex it was
\* merged into
ColorInitialGraph(b) ==
    LET G   == GraphOf(b)
        col == Coloring(G, sc.color)
    IN  [w \in 1..sc.nv |-> col[G.rep[w]]]

\* CheckColoring (run_instance.cpp): every vertex coloured, no edge monochrome
CheckColoring(col) ==
    /\ \A w \in 1..sc.nv : col[w] # 0
    /\ \A e \in sc.edges : \A u \in e, v \in e : u # v => col[u] # col[v]

NumColors(col) == Cardinality({col[w] : w \in 1..sc.nv})

\* a pass in which the ranks that add the edge keep the lower delta ranks
DescentStepLowerHalf(my_rank, a, b, h) ==
    LET delta == (b + 1 - a) \div 2
    IN  IF my_rank >= a + delta
        THEN [a |-> a + delta, b |-> b, h |-> Append(h, "M")]
        ELSE [a |-> a, b |-> a + delta - 1, h |-> Append(h, "A")]

\* one pass of the descent loop: delta is half the size of [a, b]; the upper
\* ranks merge and raise a, the others add the edge and lower b
DescentStep(my_rank, a, b, h) ==
    LET delta == (b + 1 - a) \div 2
    IN  IF my_rank >= a + delta
        THEN [a |-> a + delta, b |-> b, h |-> Append(h, "M")]
        ELSE [a |-> a, b |-> b - delta, h |-> Append(h, "A")]

\* the seed of the BALANCED variant: binary search of my_rank in [a, b]
RECURSIVE Descent(_, _, _, _)
Descent(my_rank, a, b, h) ==
    IF a = b THEN h
    ELSE LET s == DescentStep(my_rank, a, b, h)
         IN  Descent(my_rank, s.a, s.b, s.h)

Seed(my_rank) ==
    LET h == Descent(my_rank, 0, sc.p - 1, <<>>) IN MakeBranch(h, Len(h) + 1)

\* ------------------------------------------------------------------------
\* Branch::serialize / Branch::deserialize (common.hpp): buffers are
\* sequences of bytes, integers are copied in the machine's little-endian
\* two's-complement representation
\* ------------------------------------------------------------------------

INT_MAX == 2147483647
INT_MIN == (-INT_MAX) - 1

RECURSIVE Pow256(_)
Pow256(k) == IF k = 0 THEN 1 ELSE 256 * Pow256(k - 1)

\* memcpy of an unsigned value of n bytes
UnsignedBytes(x, n) == [i \in 1..n |-> (x \div Pow256(i - 1)) % 256]

\* memcpy of an int: the sign is the top bit of the fourth byte
IntBytes(x) ==
    IF x >= 0 THEN UnsignedBytes(x, 4)
    ELSE [UnsignedBytes((x + INT_MAX) + 1, 4) EXCEPT ![4] = @ + 128]

\* memcpy into an unsigned value from the n bytes of buf after offset off
BytesUnsigned(buf, off, n) ==
    LET RECURSIVE Sum(_)
        Sum(i) == IF i = 0 THEN 0
                  ELSE buf[off + i] * Pow256(i - 1) + Sum(i - 1)
    IN  Sum(n)

\* memcpy into an int from the 4 bytes of buf after offset off
BytesInt(buf, off) ==
    IF buf[off + 4] < 128 THEN BytesUnsigned(buf, off, 4)
    ELSE LET low == [i \in 1..4 |-> IF i = 4 THEN buf[off + 4] - 128
                                    ELSE buf[off + i]]
         IN  (BytesUnsigned(low, 0, 4) - INT_MAX) - 1

\* sizeof(lb), sizeof(ub), sizeof(depth)
SizeofLb == 4
SizeofUb == 2
SizeofDepth == 4

\* GraphHistory::Serialize / Deserialize: one byte per decision
OpByte(op) == IF op = "M" THEN 77 ELSE 65
ByteOp(c) == IF c = 77 THEN "M" ELSE "A"
HistorySerialize(h) == [i \in 1..Len(h) |-> OpByte(h[i])]
HistoryDeserialize(data) == [i \in 1..Len(data) |-> ByteOp(data[i])]

\* Branch::serialize: lb, ub, depth, then the history bytes
Serialize(b) ==
    IntBytes(b.lb) \o UnsignedBytes(b.ub, SizeofUb) \o IntBytes(b.depth)
       \o HistorySerialize(b.history)

\* a deserialize that reads depth right after lb
DeserializeDepthAtUb(buffer) ==
    [history |-> HistoryDeserialize(
                    SubSeq(buffer, SizeofLb + SizeofUb + SizeofDepth + 1,
                           Len(buffer))),
     lb      |-> BytesInt(buffer, 0),
     ub      |-> BytesUnsigned(buffer, SizeofLb, SizeofUb),
     depth   |-> BytesInt(buffer, SizeofLb),
     g       |-> TRUE]

\* Branch::deserialize: the three fields in the order they were written, the
\* history from the rest of the buffer
Deserialize(buffer) ==
    [history |-> HistoryDeserialize(
                    SubSeq(buffer, SizeofLb + SizeofUb + SizeofDepth + 1,
                           Len(buffer))),
     lb      |-> BytesInt(buffer, 0),
     ub      |-> BytesUnsigned(buffer, SizeofLb, SizeofUb),
     depth   |-> BytesInt(buffer, SizeofLb + SizeofUb),
     g       |-> TRUE]

\* ------------------------------------------------------------------------
\* Runs: variant, number of ranks, root graph, expected_chi, oracles,
\* timeout_seconds (0: zero; 1: reached at some tick of the run; 2: longer
\* than the run) and sol_gather_period (0: elapses during the run; 1: longer
\* than the run)
\* ------------------------------------------------------------------------

Run(variant, p, nv, edges, chi, color, clique, timeout, period) ==
    [variant |-> variant, p |-> p, nv |-> nv, edges |-> edges,
     expected_chi |-> chi, color |-> color, clique |-> clique,
     timeout |-> timeout, period |-> period]

Variants == {"STANDARD", "BALANCED"}

\* root graphs as <<number of vertices, edges>>
Empty2 == <<2, {}>>
K2 == <<2, {{1, 2}}>>
Empty3 == <<3, {}>>
Edge3 == <<3, {{2, 3}}>>
Fork4 == <<4, {{2, 4}, {3, 4}}>>
Empty4 == <<4, {}>>
Path4 == <<4, {{1, 2}, {2, 4}, {3, 4}}>>

\* expected_chi of a run, a parameter of Solve: the chromatic number, or 0,
\* a value that no bound of the search equals
Expected(g) == {Chi(g[1], g[2]), 0}

\* the runs of one variant, process count, root graph, timeout and period
RunsOn(v, p, g, t, period) ==
    {Run(v, p, g[1], g[2], c, "distinct", "greedy", t, period) :
        c \in Expected(g)}

\* searches that end by a declared solution or by the all-idle rule
SearchRuns ==
    UNION {RunsOn(v, p, g, 2, 1) :
             v \in Variants, p \in {1, 2}, g \in {Empty3, Edge3}}

\* runs whose timeout is reached
TimeoutRuns ==
    UNION {RunsOn(v, p, g, t, 1) :
             v \in Variants, p \in {1, 2}, g \in {Empty2, K2}, t \in {0, 1}}

\* runs in which the all-gather of best_ub takes place
GatherRuns ==
    UNION {RunsOn(v, 2, g, 2, 0) : v \in Variants, g \in {Empty2, K2}}

\* the BALANCED descent of two ranks branches on a pair of the root graph:
\* runs whose root graph has no non-adjacent pair are left to p = 1
DescentHasPair(s) ==
    (s.variant = "BALANCED" /\ s.p > 1) =>
       \E u \in 1..s.nv, v \in 1..s.nv : u # v /\ {u, v} \notin s.edges

\* a search of one process on a graph that the greedy colouring does not
\* colour optimally after every decision
HeuristicRuns ==
    {Run("BALANCED", 1, Fork4[1], Fork4[2], c, "greedy", "greedy", 2, 1) :
        c \in Expected(Fork4)}

\* a search of two processes in which one rank still holds a subtree of
\* several Branches when the other has run out of work
StealRuns ==
    {Run("STANDARD", 2, Empty4[1], Empty4[2], Chi(Empty4[1], Empty4[2]),
         "distinct", "greedy", 2, 1)}

\* searches of one process in which a two-child step finds its ADDEDGE child
\* with the smaller ub, or neither child below best_ub
UpdateRuns ==
    {Run("BALANCED", 1, Path4[1], Path4[2], 0, "greedy", "greedy", 2, 1),
     Run("BALANCED", 1, Empty4[1], Empty4[2], 0, "distinct", "greedy", 2, 1)}

Scenarios ==
    {s \in SearchRuns \cup TimeoutRuns \cup GatherRuns \cup HeuristicRuns
              \cup StealRuns \cup UpdateRuns :
        DescentHasPair(s)}

\* ------------------------------------------------------------------------
\* Initial state: Solve up to the start of the four threads
\* ------------------------------------------------------------------------

SolveStart ==
    /\ best_ub = [r \in Ranks |-> USHRT_MAX]
    /\ terminate_flag = [r \in Ranks |-> FALSE]
    /\ queue = [r \in Ranks |->
                  IF sc.variant = "BALANCED" THEN SetToBag({Seed(r)})
                  ELSE EmptyBag]
    /\ qlock = [r \in Ranks |-> "free"]
    /\ current_best = [r \in Ranks |->
                  IF sc.variant = "BALANCED" THEN Seed(r) ELSE EmptyBranch]
    /\ graph_out = EmptyBranch
    /\ optimum_time = -1
    /\ log = {}
    /\ pc0 = [r \in Ranks |-> "tick"]
    /\ pc1 = [r \in Ranks |-> "idle"]
    /\ pc2 = [r \in Ranks |-> "probe"]
    /\ pc3 = [r \in Ranks |-> IF sc.variant = "BALANCED" THEN "loop" ELSE "init"]
    /\ solution_found = [r \in Ranks |-> 0]
    /\ timeout_signal = [r \in Ranks |-> 0]
    /\ idle_status = [r \in Ranks |-> 0]
    /\ sol_src = 0
    /\ to_idx = 1
    /\ best_branch = EmptyBranch
    /\ round = [r \in Ranks |-> 0]
    /\ gathered = [k \in 0..MaxGathers |-> [r \in Ranks |-> -1]]
    /\ current = [r \in Ranks |-> EmptyBranch]
    /\ first_iteration = [r \in Ranks |-> TRUE]
    /\ target = [r \in Ranks |-> r]
    /\ destination_rank = [r \in Ranks |-> r]
    /\ branch = [r \in Ranks |-> EmptyBranch]
    /\ prev = [r \in Ranks |-> 0]
    /\ chSol = [r \in Ranks |-> <<>>]
    /\ chIdle = [r \in Ranks |-> <<>>]
    /\ reqs = {}
    /\ chResp = [v \in Ranks |-> [r \in Ranks |-> <<>>]]
    /\ chSteal = [v \in Ranks |-> [r \in Ranks |-> <<>>]]
    /\ chTO = [r \in Ranks |-> <<>>]
    /\ bc = [r \in Ranks |-> <<>>]

SolveInit == sc \in Scenarios /\ SolveStart

\* no Branch transfer is looked at on its own during a run of Solve
SerIdle ==
    /\ ser_b = EmptyBranch
    /\ ser_buf = <<>>
    /\ ser_out = {}

\* nor is a seeding descent
SeedIdle ==
    /\ seed_p = 0
    /\ seed_a = <<>>
    /\ seed_b = <<>>
    /\ seed_h = <<>>
    /\ seed_q = <<>>

\* nor is the timeout test
ClockIdle ==
    /\ clock_start = 0
    /\ clock_now = 0
    /\ clock_timeout = 0
    /\ clock_signal = 0

ApartIdle == SerIdle /\ SeedIdle /\ ClockIdle

Init == SolveInit /\ ApartIdle

\* the run whose initial state stands by while an operation is checked apart
RestingRun == Run("STANDARD", 1, 3, {}, 1, "distinct", "greedy", 2, 1)

\* ------------------------------------------------------------------------
\* T3, the worker
\* ------------------------------------------------------------------------

\* UpdateCurrentBest(depth, lb, ub, graph)
UpdateCurrentBest(r, dp, lower, upper, h) ==
    current_best' = [current_best EXCEPT ![r] = Branch(h, lower, upper, dp)]

\* STANDARD: initial bounds, incumbent and root Branch (Solve, before the loop)
T3Init(r) ==
    /\ r \in Ranks
    /\ pc3[r] = "init"
    /\ LET b == MakeBranch(<<>>, 1)
       IN  /\ best_ub' = [best_ub EXCEPT ![r] = b.ub]
           /\ UpdateCurrentBest(r, 0, b.lb, b.ub, <<>>)
           /\ queue' = [queue EXCEPT ![r] = Push(@, b)]
           \* Color(g, ub) colours the caller's graph itself
           /\ graph_out' = IF r = 0 THEN b ELSE graph_out
    /\ pc3' = [pc3 EXCEPT ![r] = "loop"]
    /\ UNCHANGED apart_vars
    /\ UNCHANGED <<destination_rank, branch>>
    /\ UNCHANGED <<sc, terminate_flag, qlock, optimum_time, log, pc0, pc1,
                   pc2, solution_found, timeout_signal, idle_status, sol_src,
                   to_idx, best_branch, round, gathered,
                   current, first_iteration, target, prev, chSol, chIdle,
                   reqs, chResp, chSteal, chTO, bc>>

\* top of the loop (left when terminate_flag is set): pop under the queue
\* lock, or report idle=1 when the queue is empty
T3Pop(r) ==
    /\ r \in Ranks
    /\ pc3[r] = "loop"
    /\ ~terminate_flag[r]
    /\ qlock[r] = "free"
    /\ IF BagToSet(queue[r]) # {}
       THEN \E b \in Top(queue[r]) :
              /\ current' = [current EXCEPT ![r] = b]
              /\ queue' = [queue EXCEPT ![r] = Pop(@, b)]
              /\ pc3' = [pc3 EXCEPT ![r] = "process"]
              /\ UNCHANGED chIdle
       ELSE /\ chIdle' = [chIdle EXCEPT ![r] = Append(@, 1)]
            /\ pc3' = [pc3 EXCEPT ![r] = "steal"]
            /\ UNCHANGED <<queue, current>>
    /\ UNCHANGED apart_vars
    /\ UNCHANGED <<destination_rank, branch>>
    /\ UNCHANGED <<sc, best_ub, terminate_flag, qlock, current_best,
                   graph_out, optimum_time, log, pc0, pc1, pc2,
                   solution_found, timeout_signal, idle_status, sol_src,
                   to_idx, best_branch, round, gathered,
                   first_iteration, target, prev, chSol, reqs, chResp,
                   chSteal, chTO, bc>>

\* the steal loop (left when terminate_flag is set) and the first half of
\* request_work: pick a victim other than my_rank and send the request; with
\* p = 1 the choice loop (rand() % p == my_rank) never ends
T3Request(r) ==
    /\ r \in Ranks
    /\ pc3[r] = "steal"
    /\ ~terminate_flag[r]
    /\ IF sc.p = 1
       THEN /\ pc3' = [pc3 EXCEPT ![r] = "choose"]
            /\ UNCHANGED <<target, reqs>>
       ELSE \E t \in Ranks \ {r} :
              /\ target' = [target EXCEPT ![r] = t]
              /\ reqs' = reqs \cup {<<r, t>>}
              /\ pc3' = [pc3 EXCEPT ![r] = "response"]
    /\ UNCHANGED apart_vars
    /\ UNCHANGED <<destination_rank, branch>>
    /\ UNCHANGED <<sc, best_ub, terminate_flag, queue, qlock, current_best,
                   graph_out, optimum_time, log, pc0, pc1, pc2,
                   solution_found, timeout_signal, idle_status, sol_src,
                   to_idx, best_branch, round, gathered,
                   current, first_iteration, prev, chSol, chIdle, chResp,
                   chSteal, chTO, bc>>

\* a test that takes every response for an offer of work
WorkAvailableAlways(response) == TRUE

\* "if (response == 1)": work is available
WorkAvailable(response) == response = 1

\* request_work, the wait for the response: a response is read when present,
\* else the receive is cancelled on terminate_flag
T3Response(r) ==
    /\ r \in Ranks
    /\ pc3[r] = "response"
    /\ IF chResp[target[r]][r] # <<>>
       THEN /\ chResp' = [chResp EXCEPT ![target[r]][r] = Tail(@)]
            /\ pc3' = [pc3 EXCEPT ![r] =
                         IF WorkAvailable(Head(chResp[target[r]][r]))
                         THEN "recvBranch"
                         ELSE "steal"]
       ELSE /\ terminate_flag[r]
            /\ pc3' = [pc3 EXCEPT ![r] = "done"]
            /\ UNCHANGED chResp
    /\ UNCHANGED apart_vars
    /\ UNCHANGED <<destination_rank, branch>>
    /\ UNCHANGED <<sc, best_ub, terminate_flag, queue, qlock, current_best,
                   graph_out, optimum_time, log, pc0, pc1, pc2,
                   solution_found, timeout_signal, idle_status, sol_src,
                   to_idx, best_branch, round, gathered,
                   current, first_iteration, target, prev, chSol, chIdle,
                   reqs, chSteal, chTO, bc>>

\* request_work, response 1: recvBranch, then the push under the queue lock.
\* recvBranch returns Branch() when terminate_flag is set, and that is pushed
\* as well.
T3RecvBranch(r) ==
    /\ r \in Ranks
    /\ pc3[r] = "recvBranch"
    /\ qlock[r] = "free"
    /\ IF terminate_flag[r]
       THEN /\ current' = [current EXCEPT ![r] = EmptyBranch]
            /\ queue' = [queue EXCEPT ![r] = Push(@, EmptyBranch)]
            /\ pc3' = [pc3 EXCEPT ![r] = "done"]
            /\ UNCHANGED chSteal
       ELSE /\ chSteal[target[r]][r] # <<>>
            /\ current' = [current EXCEPT ![r] = Head(chSteal[target[r]][r])]
            /\ queue' = [queue EXCEPT ![r] = Push(@, Head(chSteal[target[r]][r]))]
            /\ chSteal' = [chSteal EXCEPT ![target[r]][r] = Tail(@)]
            /\ pc3' = [pc3 EXCEPT ![r] = "gotWork"]
    /\ UNCHANGED apart_vars
    /\ UNCHANGED <<destination_rank, branch>>
    /\ UNCHANGED <<sc, best_ub, terminate_flag, qlock, current_best,
                   graph_out, optimum_time, log, pc0, pc1, pc2,
                   solution_found, timeout_signal, idle_status, sol_src,
                   to_idx, best_branch, round, gathered,
                   first_iteration, target, prev, chSol, chIdle, reqs,
                   chResp, chTO, bc>>

\* after the steal loop: "if (terminate_flag.load()) break;"
T3GotWork(r) ==
    /\ r \in Ranks
    /\ pc3[r] = "gotWork"
    /\ ~terminate_flag[r]
    /\ pc3' = [pc3 EXCEPT ![r] = "notIdle"]
    /\ UNCHANGED apart_vars
    /\ UNCHANGED <<destination_rank, branch>>
    /\ UNCHANGED <<sc, best_ub, terminate_flag, queue, qlock, current_best,
                   graph_out, optimum_time, log, pc0, pc1, pc2,
                   solution_found, timeout_signal, idle_status, sol_src,
                   to_idx, best_branch, round, gathered,
                   current, first_iteration, target, prev, chSol, chIdle,
                   reqs, chResp, chSteal, chTO, bc>>

\* a report after the steal loop that still carries idle_status = 1
T3NotIdleStillOne(r) ==
    /\ r \in Ranks
    /\ pc3[r] = "notIdle"
    /\ chIdle' = [chIdle EXCEPT ![r] = Append(@, 1)]
    /\ pc3' = [pc3 EXCEPT ![r] = "loop"]
    /\ UNCHANGED apart_vars
    /\ UNCHANGED <<destination_rank, branch>>
    /\ UNCHANGED <<sc, best_ub, terminate_flag, queue, qlock, current_best,
                   graph_out, optimum_time, log, pc0, pc1, pc2,
                   solution_found, timeout_signal, idle_status, sol_src,
                   to_idx, best_branch, round, gathered,
                   current, first_iteration, target, prev, chSol, reqs,
                   chResp, chSteal, chTO, bc>>

\* the test has passed: report idle=0 and go back to the top of the loop
T3NotIdle(r) ==
    /\ r \in Ranks
    /\ pc3[r] = "notIdle"
    /\ chIdle' = [chIdle EXCEPT ![r] = Append(@, 0)]
    /\ pc3' = [pc3 EXCEPT ![r] = "loop"]
    /\ UNCHANGED apart_vars
    /\ UNCHANGED <<destination_rank, branch>>
    /\ UNCHANGED <<sc, best_ub, terminate_flag, queue, qlock, current_best,
                   graph_out, optimum_time, log, pc0, pc1, pc2,
                   solution_found, timeout_signal, idle_status, sol_src,
                   to_idx, best_branch, round, gathered,
                   current, first_iteration, target, prev, chSol, reqs,
                   chResp, chSteal, chTO, bc>>

UbMsg(u) == [kind |-> "ub", ub |-> u, b |-> EmptyBranch]
BranchMsg(b) == [kind |-> "branch", ub |-> b.ub, b |-> b]

MergeChild(b) == MakeBranch(Append(b.history, "M"), b.depth + 1)
AddEdgeChild(b) == MakeBranch(Append(b.history, "A"), b.depth + 1)

\* the depth tests made against rank 0's depth by every rank
KeptOpsOfRankZero(r, dp) ==
    IF sc.variant = "STANDARD" /\ dp < 1 THEN <<"A">>
    ELSE IF sc.variant = "STANDARD" /\ dp = 1 THEN <<"M">>
    ELSE <<"M", "A">>

\* the two single-child decisions taken in each other's place
KeptOpsSwapped(r, dp) ==
    IF sc.variant = "STANDARD" /\ dp < r + 1 THEN <<"M">>
    ELSE IF sc.variant = "STANDARD" /\ dp = r + 1 THEN <<"A">>
    ELSE <<"M", "A">>

\* the decisions rank r keeps at a Branch of depth dp: STANDARD keeps ADDEDGE
\* only while depth < my_rank+1, MERGE only at depth = my_rank+1, both below;
\* BALANCED always keeps both
KeptOps(r, dp) ==
    IF sc.variant = "STANDARD" /\ dp < r + 1 THEN <<"A">>
    ELSE IF sc.variant = "STANDARD" /\ dp = r + 1 THEN <<"M">>
    ELSE <<"M", "A">>

\* the children a popped Branch is replaced by
Children(r, b) ==
    [i \in 1..Len(KeptOps(r, b.depth)) |->
        IF KeptOps(r, b.depth)[i] = "M" THEN MergeChild(b) ELSE AddEdgeChild(b)]

\* the nodes rank r reaches from the root Branch by its own decisions
RECURSIVE OwnPath(_, _)
OwnPath(r, h) ==
    \/ h = <<>>
    \/ /\ OwnPath(r, SubSeq(h, 1, Len(h) - 1))
       /\ \E i \in 1..Len(KeptOps(r, Len(h))) :
             KeptOps(r, Len(h))[i] = h[Len(h)]

\* the incumbent after "if (ub < _best_ub.load()) store": unchanged unless ub
\* improves the bound read
Improves(ub, bound) == ub < bound

\* one pass of the loop body on the popped Branch, up to the pushes of a
\* single child or the read of previous_best_ub of the two-child update
ProcessResult(r) ==
    LET b    == current[r]
        G    == GraphOf(b)
        keep == [bu |-> best_ub[r], cb |-> current_best[r], msgs |-> <<>>,
                 push |-> <<>>, fi |-> first_iteration[r], pv |-> prev[r],
                 pc |-> "loop"]
        self == Branch(b.history, b.lb, b.ub, b.depth)
    IN  IF b.ub = sc.expected_chi
        THEN \* solution short-circuit: ub, then the Branch unless
             \* terminate_flag already cancels sendBranch
             [keep EXCEPT !.bu = b.ub,
                          !.msgs = IF terminate_flag[r] THEN <<UbMsg(b.ub)>>
                                   ELSE <<UbMsg(b.ub), BranchMsg(b)>>,
                          !.pc = IF sc.variant = "STANDARD" THEN "done" ELSE "loop"]
        ELSE IF b.lb = b.ub
        THEN IF sc.variant = "STANDARD" /\ first_iteration[r]
             THEN [keep EXCEPT !.bu = b.ub, !.cb = self,
                               !.msgs = <<UbMsg(b.ub)>>, !.pc = "done"]
             ELSE IF Improves(b.ub, best_ub[r])
             THEN [keep EXCEPT !.bu = b.ub, !.cb = self]
             ELSE keep
        ELSE IF b.lb >= best_ub[r]
        THEN keep
        ELSE IF ChooseVertices(G) = <<-1, -1>>
        THEN IF Improves(GetNumVertices(G), best_ub[r])
             THEN [keep EXCEPT !.bu = GetNumVertices(G), !.cb = self]
             ELSE keep
        ELSE IF Len(Children(r, b)) = 1
        THEN [keep EXCEPT !.push = Children(r, b), !.fi = FALSE]
        ELSE [keep EXCEPT !.pv = best_ub[r], !.pc = "update"]

PushAll(q, bs) ==
    IF Len(bs) = 0 THEN q
    ELSE IF Len(bs) = 1 THEN Push(q, bs[1])
    ELSE Push(Push(q, bs[1]), bs[2])

T3Process(r) ==
    /\ r \in Ranks
    /\ pc3[r] = "process"
    /\ LET res == ProcessResult(r)
       IN  /\ res.push # <<>> => qlock[r] = "free"
           /\ best_ub' = [best_ub EXCEPT ![r] = res.bu]
           /\ current_best' = [current_best EXCEPT ![r] = res.cb]
           /\ chSol' = [chSol EXCEPT ![r] = @ \o res.msgs]
           /\ queue' = [queue EXCEPT ![r] = PushAll(@, res.push)]
           /\ first_iteration' = [first_iteration EXCEPT ![r] = res.fi]
           /\ prev' = [prev EXCEPT ![r] = res.pv]
           /\ pc3' = [pc3 EXCEPT ![r] = res.pc]
    /\ UNCHANGED apart_vars
    /\ UNCHANGED <<destination_rank, branch>>
    /\ UNCHANGED <<sc, terminate_flag, qlock, graph_out, optimum_time, log,
                   pc0, pc1, pc2, solution_found, timeout_signal,
                   idle_status, sol_src, to_idx, best_branch, round, gathered, current, target, chIdle, reqs, chResp,
                   chSteal, chTO, bc>>

\* an update that takes MERGE's ub whenever it improves, whatever ADDEDGE's
UpdateResultMergeFirst(r) ==
    LET b  == current[r]
        b1 == MergeChild(b)
        b2 == AddEdgeChild(b)
    IN  IF b1.ub < prev[r]
        THEN [bu |-> b1.ub, cb |-> Branch(b1.history, b1.lb, b1.ub, b.depth)]
        ELSE IF b2.ub < prev[r]
        THEN [bu |-> b2.ub, cb |-> Branch(b2.history, b2.lb, b2.ub, b.depth)]
        ELSE [bu |-> best_ub[r], cb |-> current_best[r]]

\* the two-child update of best_ub and _current_best from previous_best_ub:
\* MERGE's ub when it improves and is not above ADDEDGE's, else ADDEDGE's
\* when it improves
UpdateResult(r) ==
    LET b  == current[r]
        b1 == MergeChild(b)
        b2 == AddEdgeChild(b)
    IN  IF b1.ub < prev[r] /\ b1.ub <= b2.ub
        THEN [bu |-> b1.ub, cb |-> Branch(b1.history, b1.lb, b1.ub, b.depth)]
        ELSE IF b2.ub < prev[r]
        THEN [bu |-> b2.ub, cb |-> Branch(b2.history, b2.lb, b2.ub, b.depth)]
        ELSE [bu |-> best_ub[r], cb |-> current_best[r]]

T3Update(r) ==
    /\ r \in Ranks
    /\ pc3[r] = "update"
    /\ qlock[r] = "free"
    /\ LET res == UpdateResult(r)
       IN  /\ best_ub' = [best_ub EXCEPT ![r] = res.bu]
           /\ current_best' = [current_best EXCEPT ![r] = res.cb]
    /\ queue' = [queue EXCEPT ![r] = PushAll(@, Children(r, current[r]))]
    /\ first_iteration' = [first_iteration EXCEPT ![r] =
                            IF sc.variant = "STANDARD" THEN FALSE ELSE @]
    /\ pc3' = [pc3 EXCEPT ![r] = "loop"]
    /\ UNCHANGED apart_vars
    /\ UNCHANGED <<destination_rank, branch>>
    /\ UNCHANGED <<sc, terminate_flag, qlock, graph_out, optimum_time, log,
                   pc0, pc1, pc2, solution_found, timeout_signal,
                   idle_status, sol_src, to_idx, best_branch, round, gathered, current, target, prev, chSol, chIdle,
                   reqs, chResp, chSteal, chTO, bc>>

T3(r) ==
    \/ T3Init(r) \/ T3Pop(r) \/ T3Request(r) \/ T3Response(r)
    \/ T3RecvBranch(r) \/ T3GotWork(r) \/ T3NotIdle(r) \/ T3Process(r)
    \/ T3Update(r)

\* ------------------------------------------------------------------------
\* T2, the employer
\* ------------------------------------------------------------------------

\* a test that lets the last Branch of the queue go
CanDonateLast(q) == BagCardinality(q) > 0

\* "if (queue.size() > 1)": the employer gives a Branch away only when
\* another one stays behind
CanDonate(q) == BagCardinality(q) > 1

\* a probe that finds a request (the request is probed, never received):
\* under the queue lock, with more than one Branch the top one is popped and
\* response 1 is sent; else response 0 is sent
T2Answer(r) ==
    /\ r \in Ranks
    /\ pc2[r] = "probe"
    /\ ~terminate_flag[r]
    /\ qlock[r] = "free"
    /\ \E d \in Ranks :
         /\ <<d, r>> \in reqs
         /\ Len(chResp[r][d]) < MaxResp
         /\ IF CanDonate(queue[r])
            THEN \E b \in Top(queue[r]) :
                   /\ queue' = [queue EXCEPT ![r] = Pop(@, b)]
                   /\ chResp' = [chResp EXCEPT ![r][d] = Append(@, 1)]
                   /\ destination_rank' = [destination_rank EXCEPT ![r] = d]
                   /\ branch' = [branch EXCEPT ![r] = b]
                   /\ qlock' = [qlock EXCEPT ![r] = "T2"]
                   /\ pc2' = [pc2 EXCEPT ![r] = "sendBranch"]
            ELSE /\ chResp' = [chResp EXCEPT ![r][d] = Append(@, 0)]
                 /\ UNCHANGED <<queue, destination_rank, branch, qlock, pc2>>
    /\ UNCHANGED apart_vars
    /\ UNCHANGED <<sc, best_ub, terminate_flag, current_best, graph_out,
                   optimum_time, log, pc0, pc1, pc3, solution_found,
                   timeout_signal, idle_status, sol_src, to_idx, best_branch,
                   round, gathered, current, first_iteration,
                   target, prev, chSol, chIdle, reqs, chSteal, chTO, bc>>

\* sendBranch(branch, destination_rank, TAG_WORK_STEALING): the Branch is
\* sent, unless terminate_flag is already set and the sends are cancelled
T2SendBranch(r) ==
    /\ r \in Ranks
    /\ pc2[r] = "sendBranch"
    /\ chSteal' = IF terminate_flag[r] THEN chSteal
                  ELSE [chSteal EXCEPT ![r][destination_rank[r]] =
                                           Append(@, branch[r])]
    /\ pc2' = [pc2 EXCEPT ![r] = "sending"]
    /\ UNCHANGED apart_vars
    /\ UNCHANGED <<destination_rank, branch>>
    /\ UNCHANGED <<sc, best_ub, terminate_flag, queue, qlock, current_best,
                   graph_out, optimum_time, log, pc0, pc1, pc3,
                   solution_found, timeout_signal, idle_status, sol_src,
                   to_idx, best_branch, round, gathered,
                   current, first_iteration, target, prev, chSol, chIdle,
                   reqs, chResp, chTO, bc>>

\* sendBranch has returned: branch, destination_rank and the lock_guard go
\* out of scope
T2Sent(r) ==
    /\ r \in Ranks
    /\ pc2[r] = "sending"
    /\ qlock' = [qlock EXCEPT ![r] = "free"]
    /\ destination_rank' = [destination_rank EXCEPT ![r] = r]
    /\ branch' = [branch EXCEPT ![r] = EmptyBranch]
    /\ pc2' = [pc2 EXCEPT ![r] = "probe"]
    /\ UNCHANGED apart_vars
    /\ UNCHANGED <<sc, best_ub, terminate_flag, queue, current_best,
                   graph_out, optimum_time, log, pc0, pc1, pc3,
                   solution_found, timeout_signal, idle_status, sol_src,
                   to_idx, best_branch, round, gathered,
                   current, first_iteration, target, prev, chSol, chIdle,
                   reqs, chResp, chSteal, chTO, bc>>

T2(r) == T2Answer(r) \/ T2SendBranch(r) \/ T2Sent(r)

\* ------------------------------------------------------------------------
\* T1, the bound gatherer
\* ------------------------------------------------------------------------

\* the period has elapsed: read best_ub and start the all-gather
T1Start(r) ==
    /\ r \in Ranks
    /\ pc1[r] = "idle"
    /\ ~terminate_flag[r]
    /\ sc.period = 0
    /\ round[r] < MaxGathers
    /\ gathered' = [gathered EXCEPT ![round[r]][r] = best_ub[r]]
    /\ round' = [round EXCEPT ![r] = @ + 1]
    /\ pc1' = [pc1 EXCEPT ![r] = "gather"]
    /\ UNCHANGED apart_vars
    /\ UNCHANGED <<destination_rank, branch>>
    /\ UNCHANGED <<sc, best_ub, terminate_flag, queue, qlock, current_best,
                   graph_out, optimum_time, log, pc0, pc2, pc3,
                   solution_found, timeout_signal, idle_status, sol_src,
                   to_idx, best_branch, current, first_iteration, target,
                   prev, chSol, chIdle, reqs, chResp, chSteal, chTO, bc>>

\* the value T1 stores when the all-gather has completed
GatherStore(r, all) == MinOf(all)

\* the all-gather has completed: store the minimum of the gathered values
T1Finish(r) ==
    /\ r \in Ranks
    /\ pc1[r] = "gather"
    /\ \A q \in Ranks : gathered[round[r] - 1][q] # -1
    /\ best_ub' = [best_ub EXCEPT ![r] =
                     GatherStore(r, {gathered[round[r] - 1][q] : q \in Ranks})]
    /\ pc1' = [pc1 EXCEPT ![r] = "idle"]
    /\ UNCHANGED apart_vars
    /\ UNCHANGED <<destination_rank, branch>>
    /\ UNCHANGED <<sc, terminate_flag, queue, qlock, current_best, graph_out,
                   optimum_time, log, pc0, pc2, pc3, solution_found,
                   timeout_signal, idle_status, sol_src, to_idx, best_branch,
                   round, gathered, current, first_iteration,
                   target, prev, chSol, chIdle, reqs, chResp, chSteal, chTO,
                   bc>>

\* terminate_flag seen while the collective is incomplete
T1Cancel(r) ==
    /\ r \in Ranks
    /\ terminate_flag[r]
    /\ pc1[r] = "gather"
    /\ \E q \in Ranks : gathered[round[r] - 1][q] = -1
    /\ pc1' = [pc1 EXCEPT ![r] = "idle"]
    /\ UNCHANGED apart_vars
    /\ UNCHANGED <<destination_rank, branch>>
    /\ UNCHANGED <<sc, best_ub, terminate_flag, queue, qlock, current_best,
                   graph_out, optimum_time, log, pc0, pc2, pc3,
                   solution_found, timeout_signal, idle_status, sol_src,
                   to_idx, best_branch, round, gathered,
                   current, first_iteration, target, prev, chSol, chIdle,
                   reqs, chResp, chSteal, chTO, bc>>

T1(r) == T1Start(r) \/ T1Finish(r) \/ T1Cancel(r)

\* ------------------------------------------------------------------------
\* T0, the terminator
\* ------------------------------------------------------------------------

\* values an uninitialised unsigned short may hold
Indeterminate == {0, USHRT_MAX}

\* the value of "solution" that is stored right after MPI_Irecv is posted:
\* still 0, or the received ub when the receive has already completed
EarlyStore(ub) == {0, ub}

\* a drain that leaves the entry of rank 0 alone
DrainedWorkersOnly ==
    [i \in Ranks |-> IF i # 0 /\ chIdle[i] # <<>> THEN chIdle[i][Len(chIdle[i])]
                     ELSE idle_status[i]]

\* idle_status after all pending TAG_IDLE messages have been received
Drained ==
    [i \in Ranks |-> IF chIdle[i] # <<>> THEN chIdle[i][Len(chIdle[i])]
                     ELSE idle_status[i]]

\* std::all_of over idle_status
AllIdle(ist) == \A i \in Ranks : ist[i] = 1

\* whether the timeout test of a tick can succeed
TimeoutTest ==
    IF sc.timeout = 0 THEN {1}
    ELSE IF sc.timeout = 1 THEN {timeout_signal[0], 1}
    ELSE {timeout_signal[0]}

\* rank 0, rest of a tick: drain the idle reports, the all-idle rule, the two
\* broadcasts and the exit test; sf0, ts, lg, ot are solution_found,
\* timeout_signal, the log and optimum_time as the tick has left them so far
TickTail(sf0, ts, lg, ot) ==
    /\ idle_status' = Drained
    /\ chIdle' = [i \in Ranks |-> <<>>]
    /\ LET sf == IF AllIdle(Drained) THEN 1 ELSE sf0
       IN  /\ solution_found' = [solution_found EXCEPT ![0] = sf]
           /\ optimum_time' = IF AllIdle(Drained) THEN 0 ELSE ot
           /\ log' = (IF AllIdle(Drained) THEN lg \cup {"allidle"} ELSE lg)
                       \cup (IF ts = 1 THEN {"timeout"} ELSE {})
           /\ bc' = [w \in Ranks |-> IF w = 0 THEN bc[w]
                                     ELSE Append(bc[w], <<sf, ts>>)]
           /\ IF ts = 1
              THEN /\ pc0' = [pc0 EXCEPT ![0] = "collect"]
                   /\ UNCHANGED terminate_flag
              ELSE IF sf = 1
              THEN /\ pc0' = [pc0 EXCEPT ![0] = "done"]
                   /\ terminate_flag' = [terminate_flag EXCEPT ![0] = TRUE]
              ELSE /\ pc0' = [pc0 EXCEPT ![0] = "tick"]
                   /\ UNCHANGED terminate_flag
    /\ to_idx' = 1
    /\ best_branch' = EmptyBranch

\* rank 0, a tick: the timeout test and the probe for a declared solution;
\* with a declaration pending its ub is received (and stored early), else
\* the tick runs to its end
T0Tick ==
    /\ pc0[0] = "tick"
    /\ \A w \in Workers : Len(bc[w]) < MaxBcastLag
    /\ \E ts \in TimeoutTest :
         /\ timeout_signal' = [timeout_signal EXCEPT ![0] = ts]
         /\ IF \E s \in Ranks : chSol[s] # <<>>
            THEN /\ \E s \in Ranks :
                      /\ chSol[s] # <<>>
                      /\ Head(chSol[s]).kind = "ub"
                      /\ chSol' = [chSol EXCEPT ![s] = Tail(@)]
                      /\ \E v \in EarlyStore(Head(chSol[s]).ub) :
                           best_ub' = [best_ub EXCEPT ![0] = v]
                      /\ sol_src' = s
                 /\ pc0' = [pc0 EXCEPT ![0] = "recvBranch"]
                 /\ UNCHANGED <<terminate_flag, graph_out, optimum_time, log,
                                solution_found, idle_status, to_idx,
                                best_branch, chIdle, bc>>
            ELSE /\ TickTail(solution_found[0], ts, log, optimum_time)
                 /\ UNCHANGED <<chSol, best_ub, sol_src, graph_out>>
    /\ UNCHANGED apart_vars
    /\ UNCHANGED <<destination_rank, branch>>
    /\ UNCHANGED <<sc, queue, qlock, current_best, pc1, pc2, pc3, round,
                   gathered, current, first_iteration, target, prev, reqs,
                   chResp, chSteal, chTO>>

\* rank 0: recvBranch from the declaring rank, ColorInitialGraph, best_ub,
\* solution_found, and the rest of the tick
T0RecvBranch ==
    /\ pc0[0] = "recvBranch"
    /\ chSol[sol_src] # <<>>
    /\ Head(chSol[sol_src]).kind = "branch"
    /\ LET b == Head(chSol[sol_src]).b
       IN  /\ graph_out' = b
           /\ best_ub' = [best_ub EXCEPT ![0] = b.ub]
    /\ chSol' = [chSol EXCEPT ![sol_src] = Tail(@)]
    /\ TickTail(1, timeout_signal[0], log \cup {"solution"}, 0)
    /\ UNCHANGED apart_vars
    /\ UNCHANGED <<destination_rank, branch>>
    /\ UNCHANGED <<sc, queue, qlock, current_best, pc1, pc2, pc3,
                   timeout_signal, sol_src, round, gathered, current,
                   first_iteration, target, prev, reqs, chResp, chSteal,
                   chTO>>

\* the test that lets a collected Branch replace best_branch ("found" is
\* never set, so its first disjunct always holds)
Accepts(b, bound) == b.ub <= bound

\* rank 0, timeout: recvBranch(i, TAG_TIMEOUT_SOLUTION) for the next worker
T0Collect ==
    /\ pc0[0] = "collect"
    /\ to_idx < sc.p
    /\ chTO[to_idx] # <<>>
    /\ LET b == Head(chTO[to_idx])
       IN  IF Accepts(b, best_ub[0])
           THEN /\ best_ub' = [best_ub EXCEPT ![0] = b.ub]
                /\ best_branch' = b
           ELSE UNCHANGED <<best_ub, best_branch>>
    /\ chTO' = [chTO EXCEPT ![to_idx] = Tail(@)]
    /\ to_idx' = to_idx + 1
    /\ UNCHANGED apart_vars
    /\ UNCHANGED <<destination_rank, branch>>
    /\ UNCHANGED <<sc, terminate_flag, queue, qlock, current_best, graph_out,
                   optimum_time, log, pc0, pc1, pc2, pc3, solution_found,
                   timeout_signal, idle_status, sol_src, round, gathered, current, first_iteration, target, prev,
                   chSol, chIdle, reqs, chResp, chSteal, bc>>

\* what ColorInitialGraph(graph_to_color, best_branch) can do when
\* best_branch holds no graph (a null pointer is dereferenced)
NullGraphOutcomes == {"crashed", "done"}

\* rank 0, timeout: ColorInitialGraph(best_branch), then terminate_flag
T0Color ==
    /\ pc0[0] = "collect"
    /\ to_idx = sc.p
    /\ IF best_branch.g
       THEN /\ graph_out' = best_branch
            /\ pc0' = [pc0 EXCEPT ![0] = "done"]
            /\ terminate_flag' = [terminate_flag EXCEPT ![0] = TRUE]
       ELSE \E o \in NullGraphOutcomes :
              /\ UNCHANGED graph_out
              /\ pc0' = [pc0 EXCEPT ![0] = o]
              /\ terminate_flag' = [terminate_flag EXCEPT ![0] = (o = "done")]
    /\ UNCHANGED apart_vars
    /\ UNCHANGED <<destination_rank, branch>>
    /\ UNCHANGED <<sc, best_ub, queue, qlock, current_best, optimum_time,
                   log, pc1, pc2, pc3, solution_found, timeout_signal,
                   idle_status, sol_src, to_idx, best_branch, round, gathered, current, first_iteration, target, prev,
                   chSol, chIdle, reqs, chResp, chSteal, chTO, bc>>

\* the Branch a worker's T0 sends at timeout: _current_best, whose bounds
\* are indeterminate while it has never been assigned
TimeoutBranches(r) ==
    IF current_best[r].g THEN {current_best[r]}
    ELSE {[EmptyBranch EXCEPT !.ub = u] : u \in Indeterminate}

\* variant of the exit test that leaves the loop on every pair
ExitTestAlways(sf, ts) == TRUE

\* the exit test of the T0 loop
ExitTest(sf, ts) == sf = 1 \/ ts = 1

\* a worker's T0: the two broadcasts, the timeout contribution, the exit
T0Worker(r) ==
    /\ r \in Ranks
    /\ r # 0
    /\ pc0[r] = "tick"
    /\ bc[r] # <<>>
    /\ LET sf == Head(bc[r])[1]
           ts == Head(bc[r])[2]
       IN  /\ solution_found' = [solution_found EXCEPT ![r] = sf]
           /\ timeout_signal' = [timeout_signal EXCEPT ![r] = ts]
           /\ IF ts = 1
              THEN \E b \in TimeoutBranches(r) :
                     chTO' = [chTO EXCEPT ![r] = Append(@, b)]
              ELSE UNCHANGED chTO
           /\ IF ExitTest(sf, ts)
              THEN /\ terminate_flag' = [terminate_flag EXCEPT ![r] = TRUE]
                   /\ pc0' = [pc0 EXCEPT ![r] = "done"]
              ELSE UNCHANGED <<terminate_flag, pc0>>
    /\ bc' = [bc EXCEPT ![r] = Tail(@)]
    /\ UNCHANGED apart_vars
    /\ UNCHANGED <<destination_rank, branch>>
    /\ UNCHANGED <<sc, best_ub, queue, qlock, current_best, graph_out,
                   optimum_time, log, pc1, pc2, pc3, idle_status, sol_src,
                   to_idx, best_branch, round, gathered,
                   current, first_iteration, target, prev, chSol, chIdle,
                   reqs, chResp, chSteal>>

T0(r) ==
    \/ (r = 0 /\ T0Tick) \/ (r = 0 /\ T0RecvBranch)
    \/ (r = 0 /\ T0Collect) \/ (r = 0 /\ T0Color) \/ T0Worker(r)

\* ------------------------------------------------------------------------
\* Specification
\* ------------------------------------------------------------------------

\* the ranks of the largest run
AllRanks == 0..(MaxOf({s.p : s \in Scenarios}) - 1)

Next == \E r \in AllRanks : T0(r) \/ T1(r) \/ T2(r) \/ T3(r)

Spec == Init /\ [][Next]_vars

\* a thread has left its loop: T1 and T2 leave at the top of their loops
\* once terminate_flag is set, T3 there or by a break
Left0(r) == pc0[r] = "done"
Left1(r) == terminate_flag[r] /\ pc1[r] = "idle"
Left2(r) == terminate_flag[r] /\ pc2[r] = "probe"
Left3(r) ==
    \/ pc3[r] = "done"
    \/ terminate_flag[r] /\ pc3[r] \in {"loop", "steal", "gotWork"}

\* Solve has returned on every rank: all threads have left the parallel
\* region and MPI_Barrier has been passed
Returned == \A r \in Ranks : Left0(r) /\ Left1(r) /\ Left2(r) /\ Left3(r)

\* the value Solve returns on rank r
ReturnValue(r) == best_ub[r]

\* the colouring the output graph carries: that of the last Branch installed
\* in it, or no colour at all
OutputColoring ==
    IF graph_out.g THEN ColorInitialGraph(graph_out)
    ELSE [w \in 1..sc.nv |-> 0]

\* chromatic number and initial colouring bound of the run's root graph
ChiRoot == Chi(sc.nv, sc.edges)
RootUB == ColorUB(Root, sc.color)

\* every process has exhausted its work: empty queues, no Branch being
\* processed, no donated Branch in transit
WorkExhausted ==
    \A r \in Ranks :
       /\ queue[r] = EmptyBag
       /\ pc3[r] \notin {"process", "update"}
       /\ \A v \in Ranks : chSteal[v][r] = <<>>

\* ------------------------------------------------------------------------
\* Properties
\* ------------------------------------------------------------------------

\* C1: on every process the values taken by best_ub never increase, whichever
\* thread writes it.
C1_BestUBNonIncreasing ==
    [][\A r \in Ranks : best_ub'[r] <= best_ub[r]]_vars

\* C2: the coordinator declares all-idle only in states where every process
\* has exhausted its work.
C2_AllIdleOnlyWhenExhausted ==
    [][("allidle" \notin log /\ "allidle" \in log') => WorkExhausted]_vars

\* C3: when Solve has returned without timeout_signal, the value returned at
\* rank 0 is the chromatic number of the root graph.
C3_ReturnsChi ==
    (Returned /\ timeout_signal[0] = 0) => ReturnValue(0) = ChiRoot

\* C4: when Solve has returned, the output graph's colouring is proper,
\* colours every vertex and uses exactly as many colours as the value returned
\* at rank 0.
C4_WitnessColouring ==
    Returned => /\ CheckColoring(OutputColoring)
                /\ NumColors(OutputColoring) = ReturnValue(0)

\* C5: with a single process every steal attempt returns (request_work never
\* stays in its choice of a victim).
C5_SingleRankStealReturns ==
    sc.p = 1 => pc3[0] # "choose"

\* C6: with two or more processes rank 0's T0 never waits for the Branch of a
\* declaration whose sender has left its loop without sending one.
C6_NoWaitOnUnsentBranch ==
    sc.p >= 2 =>
       ~(/\ pc0[0] = "recvBranch"
         /\ chSol[sol_src] = <<>>
         /\ pc3[sol_src] = "done")

\* C7: once a worker has left its T0 loop on a terminating pair, rank 0 leaves
\* its T0 loop on that pair too (its T0 does not die before setting
\* terminate_flag).
C7_AllRanksLeaveTogether ==
    \A r \in Workers : terminate_flag[r] => pc0[0] # "crashed"

\* C8: terminate_flag of a process only changes from false to true, and it
\* becomes true only in a step by which that process's T0 leaves its loop
\* having observed solution_found = 1 or timeout_signal = 1.
C8_TerminateFlagSetOnceByT0 ==
    [][\A r \in Ranks :
         /\ terminate_flag[r] => terminate_flag'[r]
         /\ (~terminate_flag[r] /\ terminate_flag'[r]) =>
               /\ pc0[r] # "done" /\ pc0'[r] = "done"
               /\ solution_found'[r] = 1 \/ timeout_signal'[r] = 1]_vars

\* C8, witness: a run of two processes in which both flags have been set
C8_BothFlagsSet ==
    sc.p = 2 /\ \A r \in Ranks : terminate_flag[r] /\ pc0[r] = "done"

\* C9: when the root's initial colouring bound equals expected_chi and Solve
\* has returned without timeout, rank 0 returns expected_chi and the output
\* graph carries a proper colouring with that many colours.
C9_RootMatchReturnsExpected ==
    (RootUB = sc.expected_chi /\ Returned /\ timeout_signal[0] = 0) =>
       /\ ReturnValue(0) = sc.expected_chi
       /\ CheckColoring(OutputColoring)
       /\ NumColors(OutputColoring) = sc.expected_chi

\* C10: with a timeout of 0 every Branch a worker contributes to the timeout
\* collection is an initialised incumbent, and optimum_time stays -1.
C10_ZeroTimeoutContributions ==
    sc.timeout = 0 =>
       /\ \A r \in Ranks : \A i \in 1..Len(chTO[r]) : chTO[r][i].g
       /\ optimum_time = -1

\* ------------------------------------------------------------------------
\* A Branch transfer taken alone: serialize, then deserialize
\* ------------------------------------------------------------------------

\* values of an int field, at and around the byte boundaries
IntValues == {INT_MIN, -65536, -256, -1, 0, 1, 255, 256, 65535, 65536, INT_MAX}
\* values of an unsigned short field
UShortValues == {0, 1, 255, 256, 257, USHRT_MAX}

RECURSIVE Histories(_)
Histories(n) ==
    IF n = 0 THEN {<<>>}
    ELSE Histories(n - 1)
           \cup {Append(h, op) : h \in Histories(n - 1), op \in {"M", "A"}}

SerInit ==
    /\ SolveInit
    /\ sc = RestingRun
    /\ ser_b \in {Branch(h, lower, upper, dp) :
                    h \in Histories(MaxHistory), lower \in IntValues,
                    upper \in UShortValues, dp \in {INT_MIN, -1, 0, 1, 256, INT_MAX}}
    /\ ser_buf = <<>>
    /\ ser_out = {}
    /\ SeedIdle
    /\ ClockIdle

\* sendBranch: b.serialize()
SerSerialize ==
    /\ ser_buf = <<>>
    /\ ser_buf' = Serialize(ser_b)
    /\ UNCHANGED <<ser_b, ser_out, solve_vars, seed_vars, clock_vars>>

\* recvBranch: Branch::deserialize(buffer)
SerDeserialize ==
    /\ ser_buf # <<>>
    /\ ser_out = {}
    /\ ser_out' = {Deserialize(ser_buf)}
    /\ UNCHANGED <<ser_b, ser_buf, solve_vars, seed_vars, clock_vars>>

SerNext == SerSerialize \/ SerDeserialize

SerSpec == SerInit /\ [][SerNext]_vars

\* C11: the buffer serialize returns is lb in 4 bytes, ub in 2 bytes, depth
\* in 4 bytes and then the history bytes, and deserialize of that buffer
\* returns a Branch with the same lb, ub, depth and history.
C11_SerializeRoundTrip ==
    /\ ser_buf # <<>> =>
          /\ Len(ser_buf) = 10 + Len(ser_b.history)
          /\ \A i \in 1..Len(ser_buf) : ser_buf[i] \in 0..255
          /\ SubSeq(ser_buf, 1, 4) = IntBytes(ser_b.lb)
          /\ SubSeq(ser_buf, 5, 6) = UnsignedBytes(ser_b.ub, 2)
          /\ SubSeq(ser_buf, 7, 10) = IntBytes(ser_b.depth)
          /\ SubSeq(ser_buf, 11, Len(ser_buf)) = HistorySerialize(ser_b.history)
    /\ \A out \in ser_out :
          /\ out.lb = ser_b.lb
          /\ out.ub = ser_b.ub
          /\ out.depth = ser_b.depth
          /\ out.history = ser_b.history

\* C11, witness: a Branch with a negative lb, a two-byte ub and a non-empty
\* history has gone through serialize and deserialize
C11_RoundTripDone ==
    /\ ser_out # {}
    /\ ser_b.lb < 0
    /\ ser_b.ub > 255
    /\ ser_b.depth > 255
    /\ Len(ser_b.history) = MaxHistory

\* ------------------------------------------------------------------------
\* The seeding descents of the BALANCED variant taken alone, for p processes
\* ------------------------------------------------------------------------

SeedRanks == 0..(seed_p - 1)

SeedInit ==
    /\ SolveInit
    /\ sc = RestingRun
    /\ SerIdle
    /\ ClockIdle
    /\ seed_p \in 1..MaxProcs
    /\ seed_a = [r \in SeedRanks |-> 0]
    /\ seed_b = [r \in SeedRanks |-> seed_p - 1]
    /\ seed_h = [r \in SeedRanks |-> <<>>]
    /\ seed_q = [r \in SeedRanks |-> EmptyBag]

\* one pass of the loop "while (a != b)" of rank r
SeedDescend(r) ==
    /\ r \in SeedRanks
    /\ seed_a[r] # seed_b[r]
    /\ LET s == DescentStep(r, seed_a[r], seed_b[r], seed_h[r])
       IN  /\ seed_a' = [seed_a EXCEPT ![r] = s.a]
           /\ seed_b' = [seed_b EXCEPT ![r] = s.b]
           /\ seed_h' = [seed_h EXCEPT ![r] = s.h]
    /\ UNCHANGED <<seed_p, seed_q, ser_vars, solve_vars, clock_vars>>

\* initial_branch as it is pushed: the decisions applied and the depth counted
\* (its bounds are left to the oracles)
SeedBranch(h) == [history |-> h, depth |-> Len(h) + 1]

\* after the loop: initial_branch.depth = depth and queue.push(initial_branch)
SeedPush(r) ==
    /\ r \in SeedRanks
    /\ seed_a[r] = seed_b[r]
    /\ seed_q[r] = EmptyBag
    /\ seed_q' = [seed_q EXCEPT ![r] = Push(@, SeedBranch(seed_h[r]))]
    /\ UNCHANGED <<seed_p, seed_a, seed_b, seed_h, ser_vars, solve_vars,
                   clock_vars>>

SeedNext == \E r \in 0..(MaxProcs - 1) : SeedDescend(r) \/ SeedPush(r)

SeedSpec == SeedInit /\ [][SeedNext]_vars

\* every rank has left the descent loop
SeedsDone == \A r \in SeedRanks : seed_a[r] = seed_b[r]

SeedDepth == MaxOf({Len(seed_h[r]) : r \in SeedRanks})

IsPrefix(h, k) == Len(h) <= Len(k) /\ SubSeq(k, 1, Len(h)) = h

\* the decision sequences of length n
RECURSIVE Paths(_)
Paths(n) ==
    IF n = 0 THEN {<<>>}
    ELSE {Append(h, op) : h \in Paths(n - 1), op \in {"M", "A"}}

\* C17: once every rank has its seed, every decision sequence of the seeding
\* depth continues the seed of exactly one rank (the seeds are distinct, none
\* is a prefix of another, and no subtree is without an owner).
C17_SeedsPartitionTree ==
    SeedsDone =>
       \A k \in Paths(SeedDepth) :
          Cardinality({r \in SeedRanks : IsPrefix(seed_h[r], k)}) = 1

\* C12: every Branch held in the queue of any process (root or seed, single
\* child, two children, stolen Branch) has lb <= ub.
C12_QueuedBranchesLbLeUb ==
    \A r \in Ranks : \A b \in BagToSet(queue[r]) : b.lb <= b.ub

\* C12, witness: a thief has pushed a stolen Branch, a child whose bounds
\* differ, into its queue
C12_StolenChildQueued ==
    \E r \in Ranks :
       /\ pc3[r] = "gotWork"
       /\ current[r] \in BagToSet(queue[r])
       /\ current[r].depth >= 2
       /\ current[r].lb < current[r].ub

\* C13: a child pushed after MERGE or ADDEDGE never carries an lb smaller or
\* a ub larger than the Branch it was made from.
C13_ChildBoundsMonotone ==
    [][\A r \in Ranks :
         pc3[r] \in {"process", "update"} =>
            \A c \in BagToSet(queue'[r]) \ BagToSet(queue[r]) :
               /\ current[r].lb <= c.lb
               /\ c.ub <= current[r].ub]_vars

\* C14: best_ub of every process is at all times the initial 65535 or the
\* colour count of a proper colouring, hence never below the chromatic
\* number of the root graph.
C14_BestUBIsProvenBound ==
    \A r \in Ranks : best_ub[r] = USHRT_MAX \/ best_ub[r] >= ChiRoot

\* C15: an employer sends a response to a requester only for a request that
\* is still unanswered: the requester is waiting for the response of that
\* employer and none is on its way (requesters that have been told to
\* terminate are left aside, they may have abandoned a request).
C15_OneResponsePerRequest ==
    [][\A r \in Ranks, d \in Ranks :
         Len(chResp'[r][d]) > Len(chResp[r][d]) =>
            \/ terminate_flag[d]
            \/ /\ pc3[d] = "response"
               /\ target[d] = r
               /\ chResp[r][d] = <<>>]_vars

\* C16: in STANDARD, when a rank keeps a single child of a Branch it
\* branches on, both children of that Branch lie on the path some rank walks
\* from the root by its own decisions.
C16_SingleChildCovered ==
    [][\A r \in Ranks :
         (/\ sc.variant = "STANDARD"
          /\ pc3[r] = "process"
          /\ pc3'[r] = "loop"
          /\ BagCardinality(queue'[r]) = BagCardinality(queue[r]) + 1) =>
            \A op \in {"M", "A"} :
               \E q \in Ranks : OwnPath(q, Append(current[r].history, op))]_vars

\* C18: every ub sent on TAG_SOLUTION_FOUND is followed by a Branch from the
\* same sender: in the channel each ub has a Branch right behind it, and when
\* rank 0 has read a ub the next message of that sender is its Branch.
C18_UbFollowedByBranch ==
    \A r \in Ranks :
       /\ \A i \in 1..Len(chSol[r]) :
             chSol[r][i].kind = "ub" =>
                /\ i < Len(chSol[r])
                /\ chSol[r][i + 1].kind = "branch"
       /\ (pc0[0] = "recvBranch" /\ sol_src = r) =>
             /\ chSol[r] # <<>>
             /\ Head(chSol[r]).kind = "branch"

\* C19: the step by which T1 completes an all-gather leaves best_ub equal to
\* the minimum of the value it held just before and the gathered values.
C19_GatherKeepsMinimum ==
    [][\A r \in Ranks :
         (/\ pc1[r] = "gather"
          /\ pc1'[r] = "idle"
          /\ \A q \in Ranks : gathered[round[r] - 1][q] # -1) =>
            best_ub'[r] =
               MinOf({best_ub[r]}
                       \cup {gathered[round[r] - 1][q] : q \in Ranks})]_vars

\* C20: a worker that processes a popped Branch whose ub equals expected_chi
\* sets best_ub to that ub, sends the declaration and leaves its search loop
\* by that step.
C20_ShortCircuitExitsLoop ==
    [][\A r \in Ranks :
         (/\ pc3[r] = "process"
          /\ pc3'[r] # "process"
          /\ current[r].ub = sc.expected_chi) =>
            /\ best_ub'[r] = current[r].ub
            /\ Len(chSol'[r]) > Len(chSol[r])
            /\ pc3'[r] = "done"]_vars

\* no process's T0 has seen or taken a termination decision
NoTerminationDecision ==
    \A r \in Ranks :
       /\ ~terminate_flag[r]
       /\ solution_found[r] = 0
       /\ timeout_signal[r] = 0

\* C21: before any termination decision every Branch an employer has removed
\* from its queue and not yet delivered is the one Branch in transit to a
\* requester that is still out of work and in its steal loop, where it will
\* receive and push it (so no Branch is left in the channel while its
\* requester has gone on, and none is delivered twice).
C21_StolenBranchAwaited ==
    NoTerminationDecision =>
       \A v \in Ranks, r \in Ranks :
          chSteal[v][r] # <<>> =>
             /\ Len(chSteal[v][r]) = 1
             /\ pc3[r] \in {"steal", "response", "recvBranch"}
             /\ queue[r] = EmptyBag

\* C22: when rank 0's T0 has received a declared solution and seen the
\* timeout in the same iteration, the timeout collection of that iteration
\* leaves the output graph as the declared Branch has coloured it.
C22_DeclaredWitnessKept ==
    [][("solution" \in log /\ pc0[0] = "collect") =>
          graph_out' = graph_out]_vars

\* C23: in the timeout collection rank 0 takes one Branch from the channel of
\* each worker in turn, a collected Branch whose ub does not exceed BestUB
\* leaves best_branch with a ub no larger than its own, and the collection
\* ends, after worker p-1, by colouring the output graph from best_branch
\* with BestUB equal to the ub of that Branch.
C23_TimeoutCollection ==
    [][pc0[0] = "collect" =>
          /\ to_idx' # to_idx =>
                /\ to_idx \in Workers
                /\ to_idx' = to_idx + 1
                /\ chTO'[to_idx] = Tail(chTO[to_idx])
                /\ Head(chTO[to_idx]).ub <= best_ub[0] =>
                      best_branch'.ub <= Head(chTO[to_idx]).ub
          /\ (pc0'[0] = "done" /\ best_branch.g) =>
                /\ to_idx = sc.p
                /\ graph_out' = best_branch
                /\ best_ub'[0] = best_branch.ub]_vars

\* C24: when the timeout collection has taken the Branch of every worker,
\* the Branch rank 0 is about to colour the output graph from is a real
\* incumbent, one that holds a graph, never the default Branch.
C24_TimeoutBranchIsIncumbent ==
    (pc0[0] = "collect" /\ to_idx = sc.p) => best_branch.g

\* the popped Branch of rank r is neither a declared solution nor pruned and
\* its graph has a pair to branch on
Branchable(r) ==
    /\ current[r].ub # sc.expected_chi
    /\ current[r].lb # current[r].ub
    /\ current[r].lb < best_ub[r]
    /\ ChooseVertices(GraphOf(current[r])) # <<-1, -1>>

\* the Branches a step has added to the queue of rank r
Pushed(r) == queue'[r] (-) queue[r]

Held(r) ==
    BagToSet(queue[r])
       \cup (IF pc3[r] \in {"process", "update"} THEN {current[r]} ELSE {})

\* the Branches rank r holds below its single-child prefix (my_rank ADDEDGE
\* steps, then one MERGE)
BelowPrefix(r) == {b \in Held(r) : b.depth > r + 1}

\* C26: in STANDARD, as long as no rank has asked for work, no Branch that a
\* rank holds below its single-child prefix has the decision history of a
\* Branch that another rank holds below its own prefix.
C26_DisjointSubtrees ==
    (sc.variant = "STANDARD" /\ reqs = {}) =>
       \A r \in Ranks, s \in Ranks :
          r # s =>
             \A b \in BelowPrefix(r), c \in BelowPrefix(s) :
                b.history # c.history

\* C26, witness: two ranks each hold a Branch below their prefix and no rank
\* has asked for work
C26_TwoRanksBelowPrefix ==
    /\ sc.variant = "STANDARD"
    /\ sc.p = 2
    /\ reqs = {}
    /\ \E b \in BelowPrefix(0) : b.depth > 2
    /\ \E c \in BelowPrefix(1) : c.depth > 3

\* the last idle report rank r has sent: the last one in the channel, or the
\* one rank 0 has recorded (0 before the first report)
LastReport(r) == Drained[r]

\* a step in which rank r sends an idle report
SendsIdle(r) == Len(chIdle'[r]) > Len(chIdle[r])

\* the report sent in such a step
SentIdle(r) == chIdle'[r][Len(chIdle'[r])]

\* C27: the idle reports of a rank alternate 1, 0, 1, 0, ... starting with
\* 1; idle=1 is sent only by a pop that found the queue empty under the lock,
\* idle=0 only with the stolen Branch pushed onto the local queue, and never
\* when terminate_flag is set.
C27_IdleReportsAlternate ==
    [][\A r \in Ranks :
         SendsIdle(r) =>
            /\ SentIdle(r) # LastReport(r)
            /\ SentIdle(r) = 1 =>
                  pc3[r] = "loop" /\ queue[r] = EmptyBag /\ qlock[r] = "free"
            /\ SentIdle(r) = 0 =>
                  /\ current[r].g
                  /\ current[r] \in BagToSet(queue[r])
                  /\ ~terminate_flag[r]]_vars

\* C27 as amended: the same, but idle=0 is sent whenever the test of
\* terminate_flag after the steal loop has read false, whether or not the
\* flag has been set since.
C27_IdleReportsAlternateAfterTest ==
    [][\A r \in Ranks :
         SendsIdle(r) =>
            /\ SentIdle(r) # LastReport(r)
            /\ SentIdle(r) = 1 =>
                  pc3[r] = "loop" /\ queue[r] = EmptyBag /\ qlock[r] = "free"
            /\ SentIdle(r) = 0 =>
                  /\ current[r].g
                  /\ current[r] \in BagToSet(queue[r])
                  /\ pc3[r] = "notIdle"]_vars

\* C27, witness: a rank has reported 1, then 0 after a steal, then 1 again
C27_ThreeReports ==
    \E r \in Ranks : chIdle[r] = <<1, 0, 1>>

\* C28: at rank 0, idle_status[0] is 0 in every reachable state.
C28_RankZeroEntryStaysZero ==
    idle_status[0] = 0

\* C28 as amended: idle_status[0] is 0 or 1, it changes only when T0 drains
\* idle reports sent by rank 0's own worker, and after such a drain it is the
\* last of those reports; reports of other ranks never change it.
C28_RankZeroEntryTracksOwnReports ==
    [][/\ idle_status'[0] \in {0, 1}
       /\ idle_status'[0] # idle_status[0] => chIdle[0] # <<>>
       /\ (chIdle[0] # <<>> /\ chIdle'[0] = <<>>) =>
             idle_status'[0] = chIdle[0][Len(chIdle[0])]]_vars

\* C28, witness: T0 has recorded idle=1 for rank 0 while a report of rank 1
\* is recorded too
C28_RankZeroRecordedIdle ==
    /\ sc.p = 2
    /\ idle_status[0] = 1
    /\ idle_status[1] = 1

\* C29: an employer that has removed a Branch from its queue and is sending
\* it, still under the queue lock, has left at least one Branch in the queue:
\* the donation was made from a queue of two or more.
C29_DonorKeepsABranch ==
    \A r \in Ranks :
       pc2[r] \in {"sendBranch", "sending"} =>
          qlock[r] = "T2" /\ queue[r] # EmptyBag

\* C29, witness: an employer is sending a Branch and exactly one Branch is
\* left in its queue
C29_DonationFromTwo ==
    \E r \in Ranks :
       /\ pc2[r] = "sending"
       /\ BagCardinality(queue[r]) = 1
       /\ \E d \in Ranks : chSteal[r][d] # <<>>

\* a step in which employer v sends this response to requester d
Responds(v, d, response) ==
    chResp'[v][d] = Append(chResp[v][d], response)

\* a step in which requester d reads this response
ReadsResponse(d, response) ==
    /\ pc3[d] = "response"
    /\ pc3'[d] # "response"
    /\ chResp[target[d]][d] # <<>>
    /\ Head(chResp[target[d]][d]) = response

\* the order of the exchange, on both sides: response 1 leaves before any
\* Branch data and commits the employer to sendBranch for that requester,
\* response 0 is followed by no Branch, Branch data is sent only by that
\* sendBranch, and the requester starts to receive a Branch only on reading
\* response 1, while on response 0 it goes back to its steal loop with its
\* queue and the Branch channel untouched
ResponseBeforeBranch(v, d) ==
    /\ Responds(v, d, 1) =>
          /\ chSteal'[v][d] = chSteal[v][d]
          /\ pc2'[v] = "sendBranch"
          /\ destination_rank'[v] = d
    /\ Responds(v, d, 0) =>
          /\ chSteal' = chSteal
          /\ pc2'[v] = "probe"
    /\ Len(chSteal'[v][d]) > Len(chSteal[v][d]) =>
          /\ pc2[v] = "sendBranch"
          /\ destination_rank[v] = d
    /\ (pc3[d] # "recvBranch" /\ pc3'[d] = "recvBranch") =>
          ReadsResponse(d, 1)
    /\ Len(chSteal'[v][d]) < Len(chSteal[v][d]) =>
          pc3[d] = "recvBranch" /\ target[d] = v
    /\ ReadsResponse(d, 0) =>
          /\ pc3'[d] = "steal"
          /\ chSteal' = chSteal
          /\ queue'[d] = queue[d]

\* a step by which employer v leaves sendBranch for requester d
LeavesSendBranch(v, d) ==
    /\ pc2[v] = "sendBranch"
    /\ pc2'[v] # "sendBranch"
    /\ destination_rank[v] = d

RECURSIVE SeqToBag(_)
SeqToBag(s) ==
    IF s = <<>> THEN EmptyBag ELSE SetToBag({Head(s)}) (+) SeqToBag(Tail(s))

\* the Branches rank r has donated that are still in transit
RECURSIVE InTransitFrom(_, _)
InTransitFrom(r, ds) ==
    IF ds = {} THEN EmptyBag
    ELSE LET d == MinOf(ds)
         IN  SeqToBag(chSteal[r][d]) (+) InTransitFrom(r, ds \ {d})

\* every Branch that process r has in hand, once per copy: the queue, the
\* Branch T3 has popped and is processing, the Branch T2 has popped and is
\* about to send, and the donated Branches not yet received
InHand(r) ==
    queue[r]
      (+) (IF pc3[r] \in {"process", "update"} THEN SetToBag({current[r]})
           ELSE EmptyBag)
      (+) (IF pc2[r] = "sendBranch" THEN SetToBag({branch[r]}) ELSE EmptyBag)
      (+) InTransitFrom(r, Ranks)

\* the part of a bag that lies deeper than dp
Deeper(B, dp) ==
    LET S == {b \in BagToSet(B) : b.depth > dp} IN [b \in S |-> B[b]]

\* every Branch in hand anywhere in the fleet, the single-child prefix that
\* each STANDARD rank walks on its own copy of the root left aside
RECURSIVE InHandFleet(_)
InHandFleet(rs) ==
    IF rs = {} THEN EmptyBag
    ELSE LET r == MinOf(rs)
         IN  Deeper(InHand(r), IF sc.variant = "STANDARD" THEN r + 1 ELSE 0)
               (+) InHandFleet(rs \ {r})

\* C31: a Branch taken from a queue is in the hands of one popper only: no
\* process has the same Branch twice among its queue, the Branch its T3 is
\* processing and the Branch its T2 is donating, and across the fleet no
\* Branch is in the hands of two processes (queue, worker, or transit).
C31_OnePopperPerBranch ==
    /\ \A r \in Ranks : \A b \in BagToSet(InHand(r)) : CopiesIn(b, InHand(r)) = 1
    /\ \A b \in BagToSet(InHandFleet(Ranks)) : CopiesIn(b, InHandFleet(Ranks)) = 1

\* C31, witness: on one process T3 is processing a Branch it popped while T2
\* is donating another one, and Branches are left in the queue
C31_BothPoppersAtWork ==
    \E r \in Ranks :
       /\ pc3[r] = "process"
       /\ pc2[r] = "sendBranch"
       /\ current[r].g /\ branch[r].g
       /\ queue[r] # EmptyBag

\* C32: no employer holds the queue lock while it waits in sendBranch for the
\* transfer of a donated Branch to complete, so T3 of the same process can
\* take the lock whatever the requester does.
C32_LockNotHeldAcrossTransfer ==
    \A r \in Ranks : pc2[r] = "sending" => qlock[r] # "T2"

\* C33: the empty Branch that recvBranch returns when terminate_flag cancels
\* a receive is dropped by the caller: it is never pushed onto a queue.
C33_SentinelDropped ==
    \A r \in Ranks : EmptyBranch \notin BagToSet(queue[r])

\* the Branches popper T3 or T2 of rank r has taken from the queue and not
\* yet finished with; nothing is pushed onto the queue in the meantime
Taken(r) ==
    (IF pc3[r] \in {"process", "update"} THEN {current[r]} ELSE {})
      \cup (IF pc2[r] \in {"sendBranch", "sending"} THEN {branch[r]} ELSE {})

\* C34: the Branch a pop by T3 or by T2 has taken from a queue is at least as
\* deep as every Branch the pop left in that queue.
C34_PopTakesDeepest ==
    \A r \in Ranks :
       \A b \in Taken(r) : \A c \in BagToSet(queue[r]) : c.depth <= b.depth

\* C34, witness: T3 and T2 of one process have each popped a Branch from a
\* queue in which a shallower Branch is left
C34_PoppedAboveShallower ==
    \E r \in Ranks :
       /\ pc3[r] = "process"
       /\ pc2[r] = "sendBranch"
       /\ \E c \in BagToSet(queue[r]) :
             c.depth < current[r].depth /\ c.depth < branch[r].depth

\* a step by which T3 of rank r ends a two-child branching step while best_ub
\* still holds the value read into previous_best_ub
TwoChildUpdate(r) ==
    /\ pc3[r] = "update"
    /\ pc3'[r] # "update"
    /\ best_ub[r] = prev[r]

\* the incumbent holds the graph and the bounds of this child
IsChild(cb, c) == cb.g /\ cb.history = c.history /\ cb.lb = c.lb /\ cb.ub = c.ub

\* C35: a two-child branching step with no concurrent write leaves best_ub at
\* min(previous best_ub, ub_merge, ub_addedge); _current_best becomes the
\* MERGE child when ub_merge < previous best_ub and ub_merge <= ub_addedge,
\* the ADDEDGE child when that fails and ub_addedge < previous best_ub, and
\* otherwise best_ub and _current_best stay as they were.
C35_TwoChildUpdate ==
    [][\A r \in Ranks :
         TwoChildUpdate(r) =>
            LET b1    == MergeChild(current[r])
                b2    == AddEdgeChild(current[r])
                takeM == b1.ub < prev[r] /\ b1.ub <= b2.ub
                takeA == ~takeM /\ b2.ub < prev[r]
            IN  /\ best_ub'[r] = MinOf({prev[r], b1.ub, b2.ub})
                /\ takeM => IsChild(current_best'[r], b1)
                /\ takeA => IsChild(current_best'[r], b2)
                /\ (~takeM /\ ~takeA) =>
                      /\ best_ub'[r] = best_ub[r]
                      /\ current_best'[r] = current_best[r]]_vars

\* C35, witness: a two-child step has just made the ADDEDGE child the
\* incumbent, the MERGE child having the larger ub, and both are in the queue
C35_AddEdgeChildTaken ==
    \E r \in Ranks :
       /\ pc3[r] = "loop"
       /\ IsChild(current_best[r], AddEdgeChild(current[r]))
       /\ best_ub[r] = AddEdgeChild(current[r]).ub
       /\ MergeChild(current[r]).ub > AddEdgeChild(current[r]).ub
       /\ {MergeChild(current[r]), AddEdgeChild(current[r])}
             \subseteq BagToSet(queue[r])

\* ceil(log2 n): the least k with 2^k >= n
RECURSIVE CeilLog2(_)
CeilLog2(n) == IF n <= 1 THEN 0 ELSE 1 + CeilLog2((n + 1) \div 2)

\* C36: for every number of processes and every rank the descent keeps
\* my_rank inside [a, b], leaves its loop with a = b = my_rank after
\* ceil(log2 p) passes, and the queue then receives one Branch, the seed,
\* whose depth is ceil(log2 p) + 1.
C36_SeedDepth ==
    \A r \in SeedRanks :
       /\ seed_a[r] <= r /\ r <= seed_b[r]
       /\ Len(seed_h[r]) <= CeilLog2(seed_p)
       /\ seed_a[r] = seed_b[r] => Len(seed_h[r]) = CeilLog2(seed_p)
       /\ seed_q[r] # EmptyBag =>
             /\ seed_a[r] = r /\ seed_b[r] = r
             /\ seed_q[r] = SetToBag({SeedBranch(seed_h[r])})
             /\ \A c \in BagToSet(seed_q[r]) : c.depth = CeilLog2(seed_p) + 1

\* C36, witness: three processes, a number that is not a power of two, have
\* all pushed their seed
C36_ThreeSeedsPushed ==
    /\ seed_p = 3
    /\ \A r \in SeedRanks : seed_q[r] # EmptyBag

\* a STANDARD search of two processes on three vertices in which the
\* all-gather of best_ub takes place, and the same search on two vertices cut
\* short by the timeout
PrunedRootRuns ==
    {Run("STANDARD", 2, Empty3[1], Empty3[2], Chi(Empty3[1], Empty3[2]),
         "distinct", "greedy", 2, 0),
     Run("STANDARD", 2, Empty2[1], Empty2[2], Chi(Empty2[1], Empty2[2]),
         "distinct", "greedy", 0, 1)}

PrunedRootInit == sc \in PrunedRootRuns /\ SolveStart /\ ApartIdle

\* Solve on the runs above
PrunedRootSpec == PrunedRootInit /\ [][Next]_vars

\* a step by which T3 of rank r declares a solution from the bottom-prune
\* step (lb = ub, not the short-circuit on expected_chi) and leaves its loop
BottomPruneDeclares(r) ==
    /\ pc3[r] = "process"
    /\ pc3'[r] = "done"
    /\ current[r].ub # sc.expected_chi
    /\ current[r].lb = current[r].ub
    /\ Len(chSol'[r]) > Len(chSol[r])

\* C37: in STANDARD the bottom-prune step declares a solution only for the
\* root Branch, the first Branch a rank pops; a Branch with lb = ub popped
\* later is pruned and the loop goes on, whatever the earlier pops ended in.
C37_DeclaresOnlyAtRoot ==
    [][\A r \in Ranks :
         (sc.variant = "STANDARD" /\ BottomPruneDeclares(r)) =>
            current[r].depth = 1 /\ current[r].history = <<>>]_vars

\* ------------------------------------------------------------------------
\* The timeout test of rank 0's T0 taken alone; times are counted in clock
\* readings, UnitsPerSecond to the second
\* ------------------------------------------------------------------------

\* a time passed as an int argument: the fraction of a second is dropped
ToInt(t) == (t \div UnitsPerSecond) * UnitsPerSecond

\* "MPI_Wtime() - global_start_time >= timeout_seconds", global_start_time
\* being the int parameter of thread_0_terminator
TimeoutReached(now, start, timeout) ==
    now - ToInt(start) >= timeout * UnitsPerSecond

ClockInit ==
    /\ SolveInit
    /\ sc = RestingRun
    /\ SerIdle
    /\ SeedIdle
    /\ clock_start \in 0..(2 * UnitsPerSecond - 1)
    /\ clock_timeout \in 0..MaxSeconds
    /\ clock_now = clock_start
    /\ clock_signal = 0

\* time passes
ClockAdvance ==
    /\ clock_now < clock_start + (MaxSeconds + 1) * UnitsPerSecond
    /\ clock_now' = clock_now + 1
    /\ UNCHANGED <<clock_start, clock_timeout, clock_signal, ser_vars,
                   seed_vars, solve_vars>>

\* a tick of rank 0's T0: the timeout test
ClockTick ==
    /\ clock_signal' = IF TimeoutReached(clock_now, clock_start, clock_timeout)
                       THEN 1 ELSE clock_signal
    /\ UNCHANGED <<clock_start, clock_now, clock_timeout, ser_vars,
                   seed_vars, solve_vars>>

ClockNext == ClockAdvance \/ ClockTick

ClockSpec == ClockInit /\ [][ClockNext]_vars

\* the time elapsed since Solve recorded its start is at least timeout_seconds
Elapsed == clock_now - clock_start >= clock_timeout * UnitsPerSecond

\* C38: a tick sets timeout_signal if and only if the time elapsed since
\* Solve recorded its start is at least timeout_seconds; it is never set
\* while less time than that has elapsed, whatever the fraction of a second
\* in the recorded start.
C38_TimeoutIffElapsed ==
    [][clock_now' = clock_now =>
          ((clock_signal = 0 /\ clock_signal' = 1)
              <=> (clock_signal = 0 /\ Elapsed))]_vars

====
